---- MODULE Spec2Model ----
(***************************************************************************)
(* Fabric catalog: the server actions createFabric, updateFabric,          *)
(* deleteFabric, getFabrics and getFabricForEdit over the two tables       *)
(* fabrics and fabric_variants.                                            *)
(*                                                                         *)
(* A JavaScript object is a record whose DOMAIN is the set of keys that    *)
(* are present; an absent (undefined) key is a key outside the DOMAIN.     *)
(* SQL NULL / JavaScript null is the string Null.                          *)
(***************************************************************************)
EXTENDS Integers, Sequences, FiniteSets, TLC

VARIABLES
    fabrics,          \* rows of table fabrics
    fabricVariants,   \* rows of table fabric_variants
    fabricsIdSeq,     \* next value of the serial sequence of fabrics.id
    variantsIdSeq,    \* next value of the serial sequence of fabric_variants.id
    clock,            \* database time, the value of now()
    prev,             \* the tables as they were before the last server action
    last,             \* the last server action: its name, arguments and result
    tx,               \* the write transaction in flight (statement-level runs)
    seen,             \* what a read concurrent with tx has just returned (statement-level runs)
    editors,          \* the edit forms open in the browsers: what each loaded (editor runs)
    uploads           \* the requests to the upload route, each with its progress (upload runs)

vars == <<fabrics, fabricVariants, fabricsIdSeq, variantsIdSeq, clock, prev, last, tx, seen, editors, uploads>>

-----------------------------------------------------------------------------
(* Bounds of the model *)

\* server actions (writes and reads) in one behaviour
MaxOps == 3

\* write transactions in one statement-level behaviour
MaxTx == 2
\* fabric ids the clients address
MaxFabricId == 2
\* variant ids the clients put into a submission
MaxEntryId == 2

\* requests to the upload route in one behaviour
MaxUploads == 2

(* Program constants *)

\* z.string().min(3) of externalId
MinExternalIdLen == 3
\* z.string().min(1) of name, baseImage, composition, variantCode, ...
MinStringLen == 1
\* widthCm .min(50)
MinWidthCm == 50
\* weightGsm .min(10)
MinWeightGsm == 10
\* stockQuantity .min(0).default(0)
MinStock == 0
\* first value of a serial column
SerialStart == 1

Null == "<null>"

\* The fifteen boolean columns are declared, validated and written alike;
\* isNormal stands for each of them.
FlagNames == {"isNormal"}

CoreStringKeys == {"externalId", "name", "baseImage", "composition"}
CoreNumberKeys == {"widthCm", "weightGsm"}
CoreKeys == CoreStringKeys \cup CoreNumberKeys \cup FlagNames
VariantKeys == {"id", "variantCode", "variantName", "variantImage", "stockQuantity", "hexColorCode"}

-----------------------------------------------------------------------------
(* Generic helpers *)

Range(s) == {s[i] : i \in 1..Len(s)}

\* { ...a, ...b }: the keys of both, b winning
Spread(a, b) == [k \in DOMAIN a \cup DOMAIN b |-> IF k \in DOMAIN b THEN b[k] ELSE a[k]]

\* the object without some keys
Omit(a, ks) == [k \in DOMAIN a \ ks |-> a[k]]

\* the object restricted to some keys
Pick(a, ks) == [k \in DOMAIN a \cap ks |-> a[k]]

Has(a, k) == k \in DOMAIN a

\* the submission carries a variants field that is a list
CarriesList(fd) == Has(fd, "variants") /\ fd.variants.array

-----------------------------------------------------------------------------
(* Validation layer: src/lib/types.ts *)

StringOk(o, k, min) == Has(o, k) /\ Len(o[k]) >= min

\* variantSchema: the keys whose rule the entry breaks
variantSchemaIssues(v) ==
    {k \in {"variantCode", "variantName", "variantImage"} : ~StringOk(v, k, MinStringLen)}
    \cup {k \in {"stockQuantity"} : Has(v, k) /\ v[k] < MinStock}

\* variantSchema: the parsed entry (unknown keys stripped, stockQuantity defaulted)
variantSchemaParse(v) ==
    Spread([stockQuantity |-> MinStock], Pick(v, VariantKeys))

\* the keys of the core fields that break the rule both schemas share
CoreStringIssues(fd) ==
    {k \in {"externalId"} : ~StringOk(fd, k, MinExternalIdLen)}
    \cup {k \in CoreStringKeys \ {"externalId"} : ~StringOk(fd, k, MinStringLen)}

\* fabricSchema with the minimum of widthCm and weightGsm exclusive (.gt for .min)
fabricSchemaIssuesExclusive(fd) ==
    CoreStringIssues(fd)
    \cup {k \in {"widthCm"} : ~Has(fd, k) \/ fd[k] <= MinWidthCm}
    \cup {k \in {"weightGsm"} : ~Has(fd, k) \/ fd[k] <= MinWeightGsm}
    \cup {k \in {"variants"} :
            \/ ~Has(fd, k)
            \/ ~fd[k].array
            \/ Len(fd[k].items) < 1
            \/ \E i \in 1..Len(fd[k].items) : variantSchemaIssues(fd[k].items[i]) # {}}

\* fabricSchema.safeParse(formData).error.flatten().fieldErrors, as its key set
fabricSchemaIssues(fd) ==
    CoreStringIssues(fd)
    \cup {k \in {"widthCm"} : ~Has(fd, k) \/ fd[k] < MinWidthCm}
    \cup {k \in {"weightGsm"} : ~Has(fd, k) \/ fd[k] < MinWeightGsm}
    \cup {k \in {"variants"} :
            \/ ~Has(fd, k)
            \/ ~fd[k].array
            \/ Len(fd[k].items) < 1
            \/ \E i \in 1..Len(fd[k].items) : variantSchemaIssues(fd[k].items[i]) # {}}

\* fabricSchema.safeParse(formData).data: flags default to false
fabricSchemaData(fd) ==
    Spread(Spread([f \in FlagNames |-> FALSE], Pick(fd, CoreKeys)),
           [variants |-> [i \in 1..Len(fd.variants.items) |-> variantSchemaParse(fd.variants.items[i])]])

\* coreFabricSchema: the four strings required, numbers and flags optional
coreFabricSchemaIssues(fd) ==
    CoreStringIssues(fd)
    \cup {k \in {"widthCm"} : Has(fd, k) /\ fd[k] < MinWidthCm}
    \cup {k \in {"weightGsm"} : Has(fd, k) /\ fd[k] < MinWeightGsm}

\* the update parsed with the flag defaults of fabricSchema
coreFabricSchemaDataDefaults(fd) == Spread([f \in FlagNames |-> FALSE], Pick(fd, CoreKeys))

\* coreFabricSchema.safeParse(formData).data: the core keys that are present;
\* variants is no key of the schema and is stripped
coreFabricSchemaData(fd) == Pick(fd, CoreKeys)

-----------------------------------------------------------------------------
(* Persistence layer: the schema of src/server/db/schema.ts as PostgreSQL   *)
(* enforces it.  A database value db is a record of the two tables and the  *)
(* two serial sequences.  A statement returns [db, err]: err = NoError and  *)
(* the database after it, or the violated constraint and the database       *)
(* untouched by the statement (a statement is atomic; the values it drew    *)
(* from a sequence stay drawn).                                             *)

NoError == ""
ExternalIdUnique == "fabrics_external_id_unique"
NameIdx == "name_idx"
VariantsPkey == "fabric_variants_pkey"
UniqueVariantPerFabric == "unique_variant_per_fabric"
VariantsFabricFk == "fabric_variants_fabric_id_fabrics_id_fk"
\* tx.rollback() throws TransactionRollbackError
RolledBack == "rollback"

\* the SQLSTATE the driver reports in error.code
SqlState(err) ==
    IF err \in {ExternalIdUnique, NameIdx, VariantsPkey, UniqueVariantPerFabric} THEN "23505"
    ELSE IF err = VariantsFabricFk THEN "23503"
    ELSE "00000"

Db == [fabrics |-> fabrics, fabricVariants |-> fabricVariants,
       fabricsIdSeq |-> fabricsIdSeq, variantsIdSeq |-> variantsIdSeq]

\* table fabrics without .unique() on external_id
FabricsConstraintBrokenNameOnly(rows, row) ==
    IF \E r \in rows : r.id # row.id /\ r.name = row.name THEN NameIdx
    ELSE NoError

\* the unique constraints of table fabrics that row breaks against the other rows
FabricsConstraintBroken(rows, row) ==
    IF \E r \in rows : r.id # row.id /\ r.externalId = row.externalId THEN ExternalIdUnique
    ELSE IF \E r \in rows : r.id # row.id /\ r.name = row.name THEN NameIdx
    ELSE NoError

\* the unique index of table fabric_variants that row breaks against the other rows
VariantsConstraintBroken(rows, row) ==
    IF \E r \in rows : r.id # row.id /\ r.fabricId = row.fabricId /\ r.variantCode = row.variantCode
    THEN UniqueVariantPerFabric
    ELSE NoError

\* tx.insert(fabrics).values(values).returning({ id }): id from the sequence,
\* createdAt and updatedAt from defaultNow()
InsertFabric(db, values, now) ==
    LET id == db.fabricsIdSeq
        row == Spread(Pick(values, CoreKeys), [id |-> id, createdAt |-> now, updatedAt |-> now])
        drawn == [db EXCEPT !.fabricsIdSeq = id + 1]
        err == FabricsConstraintBroken(db.fabrics, row)
    IN  IF err # NoError
        THEN [db |-> drawn, err |-> err, id |-> 0]
        ELSE [db |-> [drawn EXCEPT !.fabrics = @ \cup {row}], err |-> NoError, id |-> id]

\* the row of fabric_variants one element of .values([...]) becomes: an id the
\* element carries is written as given, a missing id is drawn from the sequence,
\* a missing or null hexColorCode is NULL
VariantRow(values, id, now) ==
    [id |-> id,
     fabricId |-> values.fabricId,
     variantCode |-> values.variantCode,
     variantName |-> values.variantName,
     variantImage |-> values.variantImage,
     stockQuantity |-> values.stockQuantity,
     hexColorCode |-> IF Has(values, "hexColorCode") THEN values.hexColorCode ELSE Null,
     createdAt |-> now,
     updatedAt |-> now]

\* the rows of a multi-row insert, one after the other; the primary key and the
\* unique index are checked as each row goes in
RECURSIVE InsertVariantRows(_, _, _, _)
InsertVariantRows(rows, seq, list, now) ==
    IF list = <<>> THEN [rows |-> rows, seq |-> seq, err |-> NoError]
    ELSE LET values == Head(list)
             id == IF Has(values, "id") THEN values.id ELSE seq
             seq2 == IF Has(values, "id") THEN seq ELSE seq + 1
             row == VariantRow(values, id, now)
         IN  IF \E r \in rows : r.id = id
             THEN [rows |-> rows, seq |-> seq2, err |-> VariantsPkey]
             ELSE IF VariantsConstraintBroken(rows, row) # NoError
             THEN [rows |-> rows, seq |-> seq2, err |-> UniqueVariantPerFabric]
             ELSE InsertVariantRows(rows \cup {row}, seq2, Tail(list), now)

\* tx.insert(fabricVariants).values(list): the foreign key is checked when all
\* rows are in
InsertVariants(db, list, now) ==
    LET r == InsertVariantRows(db.fabricVariants, db.variantsIdSeq, list, now)
        drawn == [db EXCEPT !.variantsIdSeq = r.seq]
        fkBroken == \E i \in 1..Len(list) : \A f \in db.fabrics : f.id # list[i].fabricId
    IN  IF r.err # NoError THEN [db |-> drawn, err |-> r.err]
        ELSE IF fkBroken THEN [db |-> drawn, err |-> VariantsFabricFk]
        ELSE [db |-> [drawn EXCEPT !.fabricVariants = r.rows], err |-> NoError]

\* the update of a table fabrics that has no unique constraint
UpdateFabricRowUnchecked(db, fabricId, data) ==
    [db |-> [db EXCEPT !.fabrics = {IF r.id = fabricId THEN Spread(r, data) ELSE r : r \in @}],
     err |-> NoError]

\* tx.update(fabrics).set(data).where(eq(fabrics.id, fabricId)): only the keys
\* data carries are written; createdAt and updatedAt are not among them
UpdateFabricRow(db, fabricId, data) ==
    LET hit == {r \in db.fabrics : r.id = fabricId}
        new == {Spread(r, data) : r \in hit}
        rest == db.fabrics \ hit
        broken == {FabricsConstraintBroken(rest, r) : r \in new} \ {NoError}
    IN  IF broken # {}
        THEN [db |-> db, err |-> IF ExternalIdUnique \in broken THEN ExternalIdUnique ELSE NameIdx]
        ELSE [db |-> [db EXCEPT !.fabrics = rest \cup new], err |-> NoError]

\* tx.update(fabricVariants).set(updateData).where(eq(fabricVariants.id, id)):
\* a key whose value is undefined is left out of SET
UpdateVariantById(db, id, updateData) ==
    LET hit == {r \in db.fabricVariants : r.id = id}
        new == {Spread(r, updateData) : r \in hit}
        rest == db.fabricVariants \ hit
    IN  IF \E r \in new : VariantsConstraintBroken(rest, r) # NoError
        THEN [db |-> db, err |-> UniqueVariantPerFabric]
        ELSE [db |-> [db EXCEPT !.fabricVariants = rest \cup new], err |-> NoError]

\* the delete with inArray in place of notInArray
DeleteVariantsKept(db, fabricId, keep) ==
    LET gone == {r \in db.fabricVariants :
                    /\ r.fabricId = fabricId
                    /\ IF keep # {} THEN r.id \in keep ELSE r.fabricId = fabricId}
    IN  [db |-> [db EXCEPT !.fabricVariants = @ \ gone], err |-> NoError]

\* tx.delete(fabricVariants).where(and(eq(fabricId), keep.length > 0 ?
\*   notInArray(id, keep) : eq(fabricId)))
DeleteVariantsNotKept(db, fabricId, keep) ==
    LET gone == {r \in db.fabricVariants :
                    /\ r.fabricId = fabricId
                    /\ IF keep # {} THEN r.id \notin keep ELSE r.fabricId = fabricId}
    IN  [db |-> [db EXCEPT !.fabricVariants = @ \ gone], err |-> NoError]

\* the delete without a cascade to fabric_variants
DeleteFabricRowNoCascade(db, id) ==
    [db |-> [db EXCEPT !.fabrics = {r \in @ : r.id # id}], err |-> NoError]

\* db.delete(fabrics).where(eq(fabrics.id, id)) with ON DELETE CASCADE of
\* fabric_variants.fabric_id
DeleteFabricRow(db, id) ==
    [db |-> [db EXCEPT !.fabrics = {r \in @ : r.id # id},
                       !.fabricVariants = {v \in @ : v.fabricId # id}],
     err |-> NoError]

\* the statements issued outside a transaction: what ran before the throw stays
TransactionWithoutRollback(before, r) == r.db

\* db.transaction(body): commit when the body ran through, roll back the tables
\* when it threw; a sequence is never rolled back
Transaction(before, r) ==
    IF r.err = NoError THEN r.db
    ELSE [before EXCEPT !.fabricsIdSeq = r.db.fabricsIdSeq, !.variantsIdSeq = r.db.variantsIdSeq]

-----------------------------------------------------------------------------
(* Fabric write service: src/app/actions/actions.ts, fabric.delete.ts.      *)
(* An operation returns [db, result]: the database after it and the value   *)
(* it resolves to.  fault names what the environment does to the call.      *)

NoFault == "none"
\* .returning() yields no row
ReturningEmpty == "returningEmpty"
\* revalidatePath throws
RevalidateThrows == "revalidateThrows"
\* the database rejects the first statement (connection lost)
DbError == "dbError"
ConnectionLost == "connection_failure"

Result(success, message, errors) == [success |-> success, message |-> message, errors |-> errors]

MsgValidation == "Validation failed. Please check the form data."
MsgCreated == "Successfully created Fabric"
MsgDuplicateExternalId == "A fabric with the External ID already exists."
MsgCreateFailed == "Failed to create fabric due to a database error."
MsgValidationCore == "Validation failed on core fields."
MsgUpdated == "Successfully updated Fabric"
MsgDuplicateVariantCode == "Variant code is already used by another variant in this fabric."
MsgUpdateFailed == "Failed to update fabric due to a database error."
MsgDeleted == "Fabric successfully deleted."
MsgDeleteFailed == "Failed to delete fabric."

\* Number(variant.stockQuantity): stockQuantity is a number already (variantSchema
\* z.number() on create, the FabricFormInput type on update), and Number of a
\* number is that number
Number(x) == x

\* variants.map(variant => ({ ...variant, fabricId, stockQuantity: Number(...) }))
VariantInserts(variants, fabricId) ==
    [i \in 1..Len(variants) |->
        Spread(variants[i], [fabricId |-> fabricId, stockQuantity |-> Number(variants[i].stockQuantity)])]

\* the callback without its insert of the variants
createFabricTxFabricOnly(db, fabricData, variants, now, fault) ==
    LET ins == InsertFabric(db, fabricData, now)
    IN  [db |-> ins.db, err |-> ins.err]

\* the body of createFabric's db.transaction callback
createFabricTx(db, fabricData, variants, now, fault) ==
    LET ins == InsertFabric(db, fabricData, now)
        fabricId == IF fault = ReturningEmpty THEN 0 ELSE ins.id
    IN  IF fault = DbError THEN [db |-> db, err |-> ConnectionLost]
        ELSE IF ins.err # NoError THEN [db |-> ins.db, err |-> ins.err]
        ELSE IF fabricId = 0 THEN [db |-> ins.db, err |-> RolledBack]
        ELSE InsertVariants(ins.db, VariantInserts(variants, fabricId), now)

createFabric(db, formData, now, fault) ==
    LET issues == fabricSchemaIssues(formData)
        data == fabricSchemaData(formData)
        r == createFabricTx(db, Omit(data, {"variants"}), data.variants, now, fault)
    IN  IF issues # {}
        THEN [db |-> db, result |-> Result(FALSE, MsgValidation, issues)]
        ELSE IF r.err = NoError /\ fault = RevalidateThrows
        THEN [db |-> Transaction(db, r), result |-> Result(FALSE, MsgCreateFailed, {})]
        ELSE IF r.err = NoError
        THEN [db |-> Transaction(db, r), result |-> Result(TRUE, MsgCreated, {})]
        ELSE IF SqlState(r.err) = "23505"
        THEN [db |-> Transaction(db, r), result |-> Result(FALSE, MsgDuplicateExternalId, {})]
        ELSE [db |-> Transaction(db, r), result |-> Result(FALSE, MsgCreateFailed, {})]

\* if (variants) in place of Array.isArray(variants)
ArrayIsArrayTruthy(formData) == Has(formData, "variants")

\* Array.isArray((formData as any).variants)
ArrayIsArray(formData) == Has(formData, "variants") /\ formData.variants.array

\* v.id as a condition: a number other than 0
Truthy(v) == Has(v, "id") /\ v.id # 0

\* an updateData that carries the variantCode alone
UpdateDataCodeOnly(variant) == Pick(variant, {"variantCode"})

\* the updateData object of one existing variant; a key whose value is undefined
\* is not set
UpdateData(variant) ==
    Pick(variant, {"variantCode", "variantName", "variantImage", "stockQuantity", "hexColorCode"})

\* for (const variant of existingVariants) await tx.update(...): one statement
\* per variant, in order, until one throws
RECURSIVE UpdateExisting(_, _)
UpdateExisting(db, existingVariants) ==
    IF existingVariants = <<>> THEN [db |-> db, err |-> NoError]
    ELSE LET u == UpdateVariantById(db, Head(existingVariants).id, UpdateData(Head(existingVariants)))
         IN  IF u.err # NoError THEN u
             ELSE UpdateExisting(u.db, Tail(existingVariants))

\* the variants branch of updateFabric's transaction: update the existing ones,
\* insert the new ones, delete the rows of the fabric whose id is not kept
ReconcileVariants(db, fabricId, variants, now) ==
    LET existingVariants == SelectSeq(variants, Truthy)
        newVariants == SelectSeq(variants, LAMBDA v : ~Truthy(v))
        upd == UpdateExisting(db, existingVariants)
        ins == IF Len(newVariants) > 0
               THEN InsertVariants(upd.db, VariantInserts(newVariants, fabricId), now)
               ELSE upd
        variantIdsToKeep == {existingVariants[i].id : i \in 1..Len(existingVariants)}
    IN  IF upd.err # NoError THEN upd
        ELSE IF ins.err # NoError THEN ins
        ELSE DeleteVariantsNotKept(ins.db, fabricId, variantIdsToKeep)

\* the body of updateFabric's db.transaction callback
updateFabricTx(db, fabricId, dataToUpdate, formData, now, fault) ==
    LET upd == UpdateFabricRow(db, fabricId, dataToUpdate)
    IN  IF fault = DbError THEN [db |-> db, err |-> ConnectionLost]
        ELSE IF upd.err # NoError THEN upd
        ELSE IF ArrayIsArray(formData)
        THEN ReconcileVariants(upd.db, fabricId, formData.variants.items, now)
        ELSE upd

updateFabric(db, fabricId, formData, now, fault) ==
    LET issues == coreFabricSchemaIssues(formData)
        r == updateFabricTx(db, fabricId, coreFabricSchemaData(formData), formData, now, fault)
    IN  IF issues # {}
        THEN [db |-> db, result |-> Result(FALSE, MsgValidationCore, issues)]
        ELSE IF r.err = NoError /\ fault = RevalidateThrows
        THEN [db |-> Transaction(db, r), result |-> Result(FALSE, MsgUpdateFailed, {})]
        ELSE IF r.err = NoError
        THEN [db |-> Transaction(db, r), result |-> Result(TRUE, MsgUpdated, {})]
        ELSE IF SqlState(r.err) = "23505"
        THEN [db |-> Transaction(db, r), result |-> Result(FALSE, MsgDuplicateVariantCode, {})]
        ELSE [db |-> Transaction(db, r), result |-> Result(FALSE, MsgUpdateFailed, {})]

deleteFabric(db, id, fault) ==
    LET r == DeleteFabricRow(db, id)
    IN  IF fault = DbError THEN [db |-> db, result |-> Result(FALSE, MsgDeleteFailed, {})]
        ELSE IF fault = RevalidateThrows THEN [db |-> r.db, result |-> Result(FALSE, MsgDeleteFailed, {})]
        ELSE [db |-> r.db, result |-> Result(TRUE, MsgDeleted, {})]

-----------------------------------------------------------------------------
(* Fabric read service *)

\* the collation of the variant codes of the model: the empty string first
CodeOrder == <<"", "a", "b">>

CodeRank(c) == CHOOSE i \in 1..Len(CodeOrder) : CodeOrder[i] = c

\* the rows of a set as a sequence, smallest key first (rows of equal key in
\* id order)
RECURSIVE SortByKey(_, _)
SortByKey(rows, key) ==
    IF rows = {} THEN <<>>
    ELSE LET first == CHOOSE r \in rows : \A o \in rows \ {r} :
                          key[r] < key[o] \/ (key[r] = key[o] /\ r.id < o.id)
         IN  <<first>> \o SortByKey(rows \ {first}, key)

VariantsOf(db, fabricId) == {v \in db.fabricVariants : v.fabricId = fabricId}

\* findMany without its orderBy clauses: rows in primary key order
getFabricsUnordered(db) ==
    LET ordered == SortByKey(db.fabrics, [r \in db.fabrics |-> r.id])
        variantsById(id) == SortByKey(VariantsOf(db, id), [v \in VariantsOf(db, id) |-> v.id])
    IN  [i \in 1..Len(ordered) |->
            [fabric |-> ordered[i], variants |-> variantsById(ordered[i].id)]]

\* db.query.fabrics.findMany({ orderBy: desc(createdAt), with: { variants:
\*   { orderBy: asc(variantCode) } } })
getFabrics(db) ==
    LET ordered == SortByKey(db.fabrics, [r \in db.fabrics |-> 0 - r.createdAt])
        variantsAsc(id) == SortByKey(VariantsOf(db, id),
                                     [v \in VariantsOf(db, id) |-> CodeRank(v.variantCode)])
    IN  [i \in 1..Len(ordered) |->
            [fabric |-> ordered[i], variants |-> variantsAsc(ordered[i].id)]]

\* findFirst without its where clause: the first row of the table
getFabricForEditFirst(db, id) ==
    IF db.fabrics # {}
    THEN LET first == CHOOSE r \in db.fabrics : \A o \in db.fabrics : r.id <= o.id
         IN  [found |-> TRUE, fabric |-> first, variants |-> VariantsOf(db, first.id)]
    ELSE [found |-> FALSE, fabric |-> <<>>, variants |-> {}]

\* db.query.fabrics.findFirst({ where: eq(id), with: { variants: true } }):
\* the row with its variants, or undefined
getFabricForEdit(db, id) ==
    IF \E r \in db.fabrics : r.id = id
    THEN [found |-> TRUE,
          fabric |-> CHOOSE r \in db.fabrics : r.id = id,
          variants |-> VariantsOf(db, id)]
    ELSE [found |-> FALSE, fabric |-> <<>>, variants |-> {}]

-----------------------------------------------------------------------------
(* The submissions the clients of the model send *)

\* the fabric ids the clients address
FabricIds == SerialStart..MaxFabricId

\* the variant ids the clients put into an update
EntryIds == SerialStart..MaxEntryId

\* the id a client writes into a variant of a create
ClientId == MaxEntryId

StockNew == MinStock
StockEdited == MinStock + 5
WidthEdited == MinWidthCm + 70
WeightEdited == MinWeightGsm + 190

ExternalIds == {"TZ1", "TZ2"}
Names == {"N1", "N2"}
Codes == {"a", "b"}
HexWhite == "#fff"

\* a variant with the required fields of variantSchema: no id, no hexColorCode
Entry(code, stock) ==
    [variantCode |-> code, variantName |-> "Ivory", variantImage |-> "v.jpg", stockQuantity |-> stock]

SeqsUpTo2(S) == {<<>>} \cup {<<x>> : x \in S} \cup {<<x, y>> : x \in S, y \in S}

Array(items) == [array |-> TRUE, items |-> items]
NotAnArray == [array |-> FALSE, items |-> <<>>]

Core(externalId, name, widthCm, weightGsm) ==
    [externalId |-> externalId, name |-> name, baseImage |-> "base.jpg",
     composition |-> "PES", widthCm |-> widthCm, weightGsm |-> weightGsm]

\* variants of a create: new ones, and one that carries a client-chosen id
CreateEntries == {Entry(c, StockNew) : c \in Codes} \cup {Spread(Entry("b", StockNew), [id |-> ClientId])}

\* the variants lists of a create: code "a" first, then nothing or any entry;
\* and code "b" before code "a"
CreateLists ==
    {<<Entry("a", StockNew)>> \o l : l \in {<<>>} \cup {<<x>> : x \in CreateEntries}}
    \cup {<<Entry("b", StockNew), Entry("a", StockNew)>>}

\* submissions that pass fabricSchema
ValidCreates ==
    {Spread(Core(e, n, MinWidthCm, MinWeightGsm), [variants |-> Array(l)]) :
        e \in ExternalIds, n \in Names, l \in CreateLists}

BaseCreate == Spread(Core("TZ1", "N1", MinWidthCm, MinWeightGsm),
                     [isNormal |-> TRUE, variants |-> Array(<<Entry("a", StockNew)>>)])

\* one rule of fabricSchema broken at a time, next to its boundary
InvalidCreates ==
    {[BaseCreate EXCEPT !.externalId = "TZ"],
     [BaseCreate EXCEPT !.name = ""],
     [BaseCreate EXCEPT !.widthCm = MinWidthCm - 1],
     [BaseCreate EXCEPT !.weightGsm = MinWeightGsm - 1],
     [BaseCreate EXCEPT !.variants = Array(<<>>)],
     [BaseCreate EXCEPT !.variants = Array(<<Entry("", StockNew)>>)]}

CreateInputs == ValidCreates \cup {BaseCreate} \cup InvalidCreates

\* variants of an update: new ones, and ones that carry the id of a row, with
\* every field the dialog sends
UpdateEntries ==
    {Entry(c, StockNew) : c \in Codes}
    \cup {Spread(Entry(c, StockEdited), [id |-> i, hexColorCode |-> HexWhite]) : c \in Codes, i \in EntryIds}

\* the persisted fabric as a submission: its core fields, and every variant
\* with its id and its persisted fields
AsSubmission(db, fabricId) ==
    LET got == getFabricForEdit(db, fabricId)
        list == SortByKey(got.variants, [v \in got.variants |-> v.id])
    IN  Spread(Pick(got.fabric, CoreKeys),
               [variants |-> Array([i \in 1..Len(list) |-> Pick(list[i], VariantKeys)])])

\* the core of an update of a fabric: what is persisted when the fabric exists
CoreOf(db, fabricId) ==
    IF getFabricForEdit(db, fabricId).found
    THEN Pick(getFabricForEdit(db, fabricId).fabric, CoreKeys)
    ELSE Core("TZ1", "N1", MinWidthCm, MinWeightGsm)

\* core-only edits: identity strings changed, optional fields present or
\* omitted, a width below the minimum, strings omitted, the dialog's placeholders
CoreEdits ==
    {Pick(Core(e, n, WidthEdited, WeightEdited), CoreStringKeys) : e \in ExternalIds, n \in Names}
    \cup {Spread(Pick(Core("TZ1", "N1", WidthEdited, WeightEdited), CoreStringKeys \cup ks), fl) :
            ks \in SUBSET CoreNumberKeys, fl \in {[isNormal |-> TRUE], [isNormal |-> FALSE]}}
    \cup {Spread(Pick(Core("TZ1", "N1", WidthEdited, WeightEdited), CoreStringKeys), [variants |-> NotAnArray]),
          [widthCm |-> MinWidthCm - 1] @@ Pick(Core("TZ1", "N1", WidthEdited, WeightEdited), CoreStringKeys),
          Pick(Core("TZ1", "N2", WidthEdited, WeightEdited), {"name", "widthCm"}),
          [externalId |-> "", name |-> "N1", baseImage |-> "", composition |-> "",
           widthCm |-> WidthEdited, weightGsm |-> WeightEdited, isNormal |-> FALSE, variants |-> Array(<<>>)]}

\* variants of an update that break the rules of variantSchema: an empty
\* variantCode and a stockQuantity below the minimum
BrokenEntries ==
    {Spread(Entry("", MinStock - 1), [id |-> i]) : i \in EntryIds}

\* the numbers the variant manager dialog sends for the core fields it does not edit
PlaceholderWidthCm == 100
PlaceholderWeightGsm == 100

\* VariantManagerDialog.loadVariants: the variants of getFabricForEdit as the
\* dialog's inputs, a null hexColorCode as ""
loadVariants(db, fabricId) ==
    LET got == getFabricForEdit(db, fabricId)
        list == SortByKey(got.variants, [v \in got.variants |-> v.id])
    IN  [i \in 1..Len(list) |->
            [Pick(list[i], VariantKeys) EXCEPT
                !.hexColorCode = IF @ = Null THEN "" ELSE @]]

\* VariantManagerDialog.handleSubmit: the placeholders for the core fields
minimalFabricData(fabricName) ==
    [externalId |-> "", name |-> fabricName, composition |-> "", baseImage |-> "",
     widthCm |-> PlaceholderWidthCm, weightGsm |-> PlaceholderWeightGsm, isNormal |-> FALSE]

\* VariantManagerDialog.handleSubmit: the formData handed to updateFabric
handleSubmit(fabricName, variantInputs) ==
    Spread(minimalFabricData(fabricName), [variants |-> Array(variantInputs)])

\* what the dialog opened on a persisted fabric submits when nothing was edited
DialogInputs(db, fabricId) ==
    IF getFabricForEdit(db, fabricId).found
    THEN {handleSubmit(getFabricForEdit(db, fabricId).fabric.name, loadVariants(db, fabricId))}
    ELSE {}

UpdateInputs(db, fabricId) ==
    LET core == CoreOf(db, fabricId)
    IN  CoreEdits
        \cup {Spread(core, [variants |-> Array(l)]) : l \in SeqsUpTo2(UpdateEntries)}
        \cup {Spread(core, [variants |-> Array(<<x>>)]) : x \in BrokenEntries}
        \cup (IF getFabricForEdit(db, fabricId).found THEN {AsSubmission(db, fabricId)} ELSE {})
        \cup DialogInputs(db, fabricId)

-----------------------------------------------------------------------------
(* The state machine: one action per server action, each a whole call *)

\* the browsers with an edit form, and a form that is not open
Editors == {"e1", "e2"}
Closed == [open |-> FALSE, fabricId |-> 0, fabricData |-> <<>>, variantInputs |-> <<>>,
           rows |-> {}, loadedAt |-> 0, submittedAt |-> 0]

NoCall == [op |-> "none", fabricId |-> 0, formData |-> <<>>, fault |-> NoFault,
           result |-> Result(FALSE, "", {}), threw |-> FALSE, afterListUpdate |-> FALSE]

EmptyDb == [fabrics |-> {}, fabricVariants |-> {}, fabricsIdSeq |-> SerialStart, variantsIdSeq |-> SerialStart]

Init ==
    /\ fabrics = {}
    /\ fabricVariants = {}
    /\ fabricsIdSeq = SerialStart
    /\ variantsIdSeq = SerialStart
    /\ clock = 0
    /\ prev = EmptyDb
    /\ last = NoCall
    /\ tx = <<>>
    /\ seen = <<>>
    /\ editors = [e \in Editors |-> Closed]
    /\ uploads = <<>>

\* the call op(fabricId, formData) returned out
Returned(op, fabricId, formData, fault, res) ==
    LET out == res IN
    /\ fabrics' = out.db.fabrics
    /\ fabricVariants' = out.db.fabricVariants
    /\ fabricsIdSeq' = out.db.fabricsIdSeq
    /\ variantsIdSeq' = out.db.variantsIdSeq
    /\ clock' = clock + 1
    /\ prev' = Db
    /\ last' = [op |-> op, fabricId |-> fabricId, formData |-> formData, fault |-> fault,
                result |-> out.result,
                threw |-> FALSE,
                afterListUpdate |-> /\ last.op = "updateFabric"
                                    /\ last.fabricId = fabricId
                                    /\ last.result.success
                                    /\ CarriesList(last.formData)]
    /\ UNCHANGED <<tx, seen, uploads>>

CreateFabric(formData, fault) ==
    /\ clock < MaxOps
    /\ Returned("createFabric", 0, formData, fault, createFabric(Db, formData, clock, fault))
    /\ UNCHANGED editors

UpdateFabric(fabricId, formData, fault) ==
    /\ clock < MaxOps
    /\ Returned("updateFabric", fabricId, formData, fault, updateFabric(Db, fabricId, formData, clock, fault))
    /\ UNCHANGED editors

DeleteFabric(id, fault) ==
    /\ clock < MaxOps
    /\ Returned("deleteFabric", id, <<>>, fault, deleteFabric(Db, id, fault))
    /\ UNCHANGED editors

\* a read returned value, or rejected with the error of the database: neither
\* getFabrics nor getFabricForEdit has a try/catch around its query
ReadReturned(op, id, fault, value) ==
    /\ clock' = clock + 1
    /\ prev' = Db
    /\ last' = [op |-> op, fabricId |-> id, formData |-> <<>>, fault |-> fault,
                result |-> IF fault = DbError THEN ConnectionLost ELSE value,
                threw |-> (fault = DbError),
                afterListUpdate |-> FALSE]
    /\ UNCHANGED <<fabrics, fabricVariants, fabricsIdSeq, variantsIdSeq, tx, seen, editors, uploads>>

\* getFabrics(), also as fetchFabricData() calls it
GetFabrics(fault) ==
    /\ clock < MaxOps
    /\ ReadReturned("getFabrics", 0, fault, getFabrics(Db))

GetFabricForEdit(id, fault) ==
    /\ clock < MaxOps
    /\ ReadReturned("getFabricForEdit", id, fault, getFabricForEdit(Db, id))

\* the calls the environment fails: a few submissions under every fault
Faults == {ReturningEmpty, RevalidateThrows, DbError}

FaultyCreateInputs ==
    {Spread(Core("TZ1", "N1", MinWidthCm, MinWeightGsm), [variants |-> Array(<<Entry("a", StockNew)>>)])}

FaultyUpdateInputs(db, fabricId) ==
    IF getFabricForEdit(db, fabricId).found
    THEN {[AsSubmission(db, fabricId) EXCEPT !.name = n] : n \in Names}
    ELSE {}

Next ==
    \/ \E formData \in CreateInputs : CreateFabric(formData, NoFault)
    \/ \E fabricId \in FabricIds : \E formData \in UpdateInputs(Db, fabricId) :
          UpdateFabric(fabricId, formData, NoFault)
    \/ \E id \in FabricIds : DeleteFabric(id, NoFault)
    \/ \E formData \in FaultyCreateInputs : \E fault \in Faults : CreateFabric(formData, fault)
    \/ \E fabricId \in FabricIds : \E formData \in FaultyUpdateInputs(Db, fabricId) :
          \E fault \in Faults \ {ReturningEmpty} : UpdateFabric(fabricId, formData, fault)
    \/ \E id \in FabricIds : \E fault \in Faults \ {ReturningEmpty} : DeleteFabric(id, fault)
    \/ \E fault \in {NoFault, DbError} : GetFabrics(fault)
    \/ \E id \in FabricIds : \E fault \in {NoFault, DbError} : GetFabricForEdit(id, fault)

Spec == Init /\ [][Next]_vars

-----------------------------------------------------------------------------
(* Statement-level runs: a write transaction executes one statement at a    *)
(* time on its connection tx while other requests read the committed        *)
(* tables.  One write is in flight at a time.                               *)

Idle == <<>>

\* statements issued on db instead of tx: each is committed as it runs
VisibleToOthersAutocommit(committed, working) == working

\* what a statement of the open transaction leaves for the other connections
\* to see: every statement of createFabric and updateFabric is issued on tx,
\* so nothing before the commit
VisibleToOthers(committed, working) == committed

\* the statements of createFabric's transaction, in order
createFabricStatements(data) ==
    <<[s |-> "insertFabric", values |-> Omit(data, {"variants"})],
      [s |-> "insertVariants", variants |-> data.variants]>>

\* the statements of updateFabric's transaction, in order
updateFabricStatements(fabricId, formData) ==
    LET variants == IF ArrayIsArray(formData) THEN formData.variants.items ELSE <<>>
        existingVariants == SelectSeq(variants, Truthy)
        newVariants == SelectSeq(variants, LAMBDA v : ~Truthy(v))
    IN  <<[s |-> "updateFabric", data |-> coreFabricSchemaData(formData)]>>
        \o (IF ArrayIsArray(formData)
            THEN [i \in 1..Len(existingVariants) |-> [s |-> "updateVariant", variant |-> existingVariants[i]]]
                 \o (IF Len(newVariants) > 0 THEN <<[s |-> "insertVariants", variants |-> newVariants]>> ELSE <<>>)
                 \o <<[s |-> "deleteVariants",
                       keep |-> {existingVariants[i].id : i \in 1..Len(existingVariants)}]>>
            ELSE <<>>)

\* one statement on the working copy of the transaction
Execute(stmt, t) ==
    IF stmt.s = "insertFabric" THEN InsertFabric(t.db, stmt.values, t.now)
    ELSE IF stmt.s = "insertVariants"
         THEN InsertVariants(t.db, VariantInserts(stmt.variants, t.fabricId), t.now)
    ELSE IF stmt.s = "updateFabric" THEN UpdateFabricRow(t.db, t.fabricId, stmt.data)
    ELSE IF stmt.s = "updateVariant" THEN UpdateVariantById(t.db, stmt.variant.id, UpdateData(stmt.variant))
    ELSE DeleteVariantsNotKept(t.db, t.fabricId, stmt.keep)

SetTables(db) ==
    /\ fabrics' = db.fabrics
    /\ fabricVariants' = db.fabricVariants
    /\ fabricsIdSeq' = db.fabricsIdSeq
    /\ variantsIdSeq' = db.variantsIdSeq

\* createFabric validates and opens its transaction
TxBeginCreate(formData) ==
    /\ tx = Idle
    /\ clock < MaxTx
    /\ fabricSchemaIssues(formData) = {}
    /\ tx' = [op |-> "createFabric", fabricId |-> 0, formData |-> formData, now |-> clock,
              before |-> Db, db |-> Db,
              todo |-> createFabricStatements(fabricSchemaData(formData))]
    /\ clock' = clock + 1
    /\ seen' = <<>>
    /\ UNCHANGED <<fabrics, fabricVariants, fabricsIdSeq, variantsIdSeq, prev, last, editors, uploads>>

\* updateFabric validates and opens its transaction
TxBeginUpdate(fabricId, formData) ==
    /\ tx = Idle
    /\ clock < MaxTx
    /\ coreFabricSchemaIssues(formData) = {}
    /\ tx' = [op |-> "updateFabric", fabricId |-> fabricId, formData |-> formData, now |-> clock,
              before |-> Db, db |-> Db,
              todo |-> updateFabricStatements(fabricId, formData)]
    /\ clock' = clock + 1
    /\ seen' = <<>>
    /\ UNCHANGED <<fabrics, fabricVariants, fabricsIdSeq, variantsIdSeq, prev, last, editors, uploads>>

\* the next statement of the open transaction runs through
TxStatement ==
    /\ tx # Idle
    /\ tx.todo # <<>>
    /\ LET r == Execute(Head(tx.todo), tx)
       IN  /\ r.err = NoError
           /\ tx' = [tx EXCEPT !.db = r.db,
                               !.todo = Tail(@),
                               !.fabricId = IF Head(tx.todo).s = "insertFabric" THEN r.id ELSE @]
           /\ SetTables([VisibleToOthers(Db, r.db) EXCEPT !.fabricsIdSeq = r.db.fabricsIdSeq,
                                                          !.variantsIdSeq = r.db.variantsIdSeq])
    /\ seen' = <<>>
    /\ UNCHANGED <<clock, prev, last, editors, uploads>>

\* the next statement throws: the transaction rolls back and the action returns
\* its failure
TxRollback ==
    /\ tx # Idle
    /\ tx.todo # <<>>
    /\ LET r == Execute(Head(tx.todo), tx)
       IN  /\ r.err # NoError
           /\ SetTables(Transaction(tx.before, r))
    /\ tx' = Idle
    /\ seen' = <<>>
    /\ UNCHANGED <<clock, prev, last, editors, uploads>>

\* every statement ran: commit, and the action returns success
TxCommit ==
    /\ tx # Idle
    /\ tx.todo = <<>>
    /\ SetTables(tx.db)
    /\ tx' = Idle
    /\ seen' = <<>>
    /\ UNCHANGED <<clock, prev, last, editors, uploads>>

\* what the whole write leaves committed, as the action computes it in one piece
Outcome(t) ==
    IF t.op = "createFabric" THEN createFabric(t.before, t.formData, t.now, NoFault).db
    ELSE updateFabric(t.before, t.fabricId, t.formData, t.now, NoFault).db

\* getFabrics() of another request while the write is in flight
ReadList ==
    /\ tx # Idle
    /\ seen' = [q |-> "getFabrics", id |-> 0, value |-> getFabrics(Db),
                before |-> getFabrics(tx.before), after |-> getFabrics(Outcome(tx)),
                working |-> getFabrics(tx.db)]
    /\ UNCHANGED <<fabrics, fabricVariants, fabricsIdSeq, variantsIdSeq, clock, prev, last, tx, editors, uploads>>

\* getFabricForEdit(id) of another request while the write is in flight
ReadForEdit(id) ==
    /\ tx # Idle
    /\ seen' = [q |-> "getFabricForEdit", id |-> id, value |-> getFabricForEdit(Db, id),
                before |-> getFabricForEdit(tx.before, id), after |-> getFabricForEdit(Outcome(tx), id),
                working |-> getFabricForEdit(tx.db, id)]
    /\ UNCHANGED <<fabrics, fabricVariants, fabricsIdSeq, variantsIdSeq, clock, prev, last, tx, editors, uploads>>

\* the writes of the statement-level runs
TxCreateInputs ==
    {Spread(Core(e, e, MinWidthCm, MinWeightGsm), [variants |-> Array(l)]) : e \in ExternalIds, l \in CreateLists}

TxUpdateInputs(db, fabricId) ==
    {fd \in UpdateInputs(db, fabricId) : coreFabricSchemaIssues(fd) = {}}

NextTx ==
    \/ \E formData \in TxCreateInputs : TxBeginCreate(formData)
    \/ \E fabricId \in FabricIds : \E formData \in TxUpdateInputs(Db, fabricId) : TxBeginUpdate(fabricId, formData)
    \/ TxStatement
    \/ TxRollback
    \/ TxCommit
    \/ ReadList
    \/ \E id \in FabricIds : ReadForEdit(id)

SpecTx == Init /\ [][NextTx]_vars

-----------------------------------------------------------------------------
(* Vocabulary of the properties *)

\* the call that returned last
Called(op) == last.op = op
Succeeded == last.result.success
Submitted == last.formData.variants.items
TablesUnchanged == fabrics = prev.fabrics /\ fabricVariants = prev.fabricVariants

\* the fields of a variant row a client supplies
ContentKeys == {"variantCode", "variantName", "variantImage", "stockQuantity", "hexColorCode"}

\* the content a submitted variant asks for: a missing hexColorCode is null
Wanted(entry) == Spread([hexColorCode |-> Null], Pick(entry, ContentKeys))

\* the rows of fabric fabricId are the entries of items, one row each: an entry
\* with an id is the row of that id, an entry without is a row that is new
EqualsSubmitted(db, before, fabricId, items) ==
    LET rows == VariantsOf(db, fabricId)
    IN  /\ Cardinality(rows) = Len(items)
        /\ \A i \in 1..Len(items) : \E r \in rows :
              /\ Pick(r, ContentKeys) = Wanted(items[i])
              /\ IF Has(items[i], "id") THEN r.id = items[i].id
                 ELSE \A o \in before.fabricVariants : o.id # r.id

\* every id of the submitted list is the id of a variant of the target fabric
SubmittedIdsBelong ==
    \A i \in 1..Len(Submitted) :
        Has(Submitted[i], "id") =>
            \E v \in prev.fabricVariants : v.id = Submitted[i].id /\ v.fabricId = last.fabricId

TargetExisted == getFabricForEdit(prev, last.fabricId).found

-----------------------------------------------------------------------------
(* C1  Variant reconciliation result: after a successful updateFabric that  *)
(* carries a variants list whose ids all belong to the fabric, the          *)
(* persisted variants of the fabric are the submitted list (kept ids keep   *)
(* their id and carry the submitted fields, entries without id are new      *)
(* rows, every other row is gone).  The code deletes the rows it has just   *)
(* inserted, so the statement fails.                                        *)
C1_ReconciliationResult ==
    (/\ Called("updateFabric")
     /\ Succeeded
     /\ TargetExisted
     /\ CarriesList(last.formData)
     /\ SubmittedIdsBelong)
    => EqualsSubmitted(Db, prev, last.fabricId, Submitted)

-----------------------------------------------------------------------------
\* the last call resubmitted the persisted fabric, right after a successful
\* updateFabric of the same fabric that carried a variants list
Resubmitted ==
    /\ Called("updateFabric")
    /\ last.fault = NoFault
    /\ last.afterListUpdate
    /\ TargetExisted
    /\ last.formData = AsSubmission(prev, last.fabricId)

\* core fields and variants (id and content) of a fabric
CoreAndVariants(db, fabricId) ==
    [core |-> {Pick(r, CoreKeys) : r \in {f \in db.fabrics : f.id = fabricId}},
     variants |-> {Pick(v, ContentKeys \cup {"id"}) : v \in VariantsOf(db, fabricId)}]

(* C2  Reconciliation idempotence: after a successful updateFabric with a   *)
(* variants list, updateFabric with the resulting persisted state as input  *)
(* succeeds and leaves the core fields of the fabric and its variants (id,  *)
(* code, name, image, stock, hex colour) as they were.                      *)
C2_ResubmitIsNoOp ==
    Resubmitted =>
        /\ Succeeded
        /\ CoreAndVariants(Db, last.fabricId) = CoreAndVariants(prev, last.fabricId)

C2_Witness ==
    /\ Resubmitted
    /\ Succeeded
    /\ VariantsOf(Db, last.fabricId) # {}

-----------------------------------------------------------------------------
\* createFabric got past validation and inserted its fabric row, then failed
FailedAfterFabricInsert ==
    /\ Called("createFabric")
    /\ ~Succeeded
    /\ fabricSchemaIssues(last.formData) = {}
    /\ last.fault \in {NoFault, ReturningEmpty}
    /\ InsertFabric(prev, Omit(fabricSchemaData(last.formData), {"variants"}), clock - 1).err = NoError

(* C3  Create atomicity: when createFabric fails after its Fabric row was   *)
(* inserted in the transaction (duplicate variantCode in the batch, missing *)
(* generated id), no Fabric row and no Variant row of the submission is     *)
(* persisted: both tables are as before the call.                           *)
C3_CreateAtomic ==
    FailedAfterFabricInsert => TablesUnchanged

C3_Witness ==
    /\ FailedAfterFabricInsert
    /\ last.fault = NoFault
    /\ \E i, j \in 1..Len(Submitted) : i # j /\ Submitted[i].variantCode = Submitted[j].variantCode
    /\ TablesUnchanged

-----------------------------------------------------------------------------
\* the submitted variants hold two entries of the same variantCode
SubmittedDuplicateCode ==
    /\ CarriesList(last.formData)
    /\ \E i, j \in 1..Len(Submitted) : i # j /\ Submitted[i].variantCode = Submitted[j].variantCode

(* C4  Variant code uniqueness per fabric: a createFabric or updateFabric   *)
(* of an existing fabric whose submitted variants hold two entries with the *)
(* same variantCode returns success:false and persists nothing.  The code   *)
(* leaves the check to the unique index, which only sees the rows the       *)
(* entries reach, so the statement fails for entries with a stale or        *)
(* repeated id.                                                             *)
C4_DuplicateCodeRejected ==
    (/\ Called("createFabric") \/ (Called("updateFabric") /\ TargetExisted)
     /\ SubmittedDuplicateCode)
    => (~Succeeded /\ TablesUnchanged)

-----------------------------------------------------------------------------
\* createFabric of a valid submission whose externalId a fabric already holds
CreateOfHeldExternalId ==
    /\ Called("createFabric")
    /\ last.fault = NoFault
    /\ fabricSchemaIssues(last.formData) = {}
    /\ \E r \in prev.fabrics : r.externalId = last.formData.externalId

(* C5  External id uniqueness on create: createFabric with an externalId    *)
(* that a Fabric already holds returns success:false with the conflict      *)
(* result, leaves every Fabric and Variant row as it was, and exactly one   *)
(* Fabric with that externalId exists afterwards.                           *)
C5_ExternalIdConflict ==
    CreateOfHeldExternalId =>
        /\ ~Succeeded
        /\ last.result.message = MsgDuplicateExternalId
        /\ TablesUnchanged
        /\ Cardinality({r \in fabrics : r.externalId = last.formData.externalId}) = 1

C5_Witness ==
    /\ CreateOfHeldExternalId
    /\ ~Succeeded
    /\ \A r \in prev.fabrics : r.name # last.formData.name
    /\ \E r \in fabrics : r.externalId = last.formData.externalId /\ VariantsOf(Db, r.id) # {}

-----------------------------------------------------------------------------
\* createFabric of a submission that passes fabricSchema and whose externalId
\* and name no fabric holds
CreateWithoutRowConflict ==
    /\ Called("createFabric")
    /\ last.fault = NoFault
    /\ fabricSchemaIssues(last.formData) = {}
    /\ \A r \in prev.fabrics : r.externalId # last.formData.externalId /\ r.name # last.formData.name
    /\ \A i \in 1..Len(Submitted) : Has(Submitted[i], "id") =>
          \A v \in prev.fabricVariants : v.id # Submitted[i].id

\* the ids the rows of a batch get: the one an entry carries or the next of the sequence
RECURSIVE BatchIds(_, _)
BatchIds(list, seq) ==
    IF list = <<>> THEN <<>>
    ELSE IF Has(Head(list), "id") THEN <<Head(list).id>> \o BatchIds(Tail(list), seq)
    ELSE <<seq>> \o BatchIds(Tail(list), seq + 1)

\* the variants of the submission conflict neither with each other nor, by a
\* drawn id, with a row
BatchWithoutConflict ==
    LET ids == BatchIds(Submitted, prev.variantsIdSeq)
    IN  /\ \A i, j \in 1..Len(Submitted) : i # j =>
              /\ Submitted[i].variantCode # Submitted[j].variantCode
              /\ ids[i] # ids[j]
        /\ \A i \in 1..Len(Submitted) : \A v \in prev.fabricVariants : v.id # ids[i]

\* listFabrics() holds exactly one fabric with the core fields of the submission,
\* and its variants are the submitted ones
ListedOnceAsSubmitted ==
    LET listed == getFabrics(Db)
        core == Omit(fabricSchemaData(last.formData), {"variants"})
        hits == {i \in 1..Len(listed) : Pick(listed[i].fabric, CoreKeys) = core}
    IN  /\ Cardinality(hits) = 1
        /\ \A i \in hits :
              /\ Range(listed[i].variants) = VariantsOf(Db, listed[i].fabric.id)
              /\ Len(listed[i].variants) = Len(Submitted)
              /\ EqualsSubmitted(Db, prev, listed[i].fabric.id, Submitted)

(* C6 as stated  Create/list round-trip: for every submission that passes   *)
(* the full schema with at least one variant and conflicts with no existing *)
(* row, createFabric succeeds and listFabrics() then holds exactly one      *)
(* Fabric with the submitted core fields and the submitted variants.        *)
C6_RoundTripAsStated ==
    CreateWithoutRowConflict => (Succeeded /\ ListedOnceAsSubmitted)

(* C6 amended  The same, for submissions whose variants also do not         *)
(* conflict with each other: pairwise distinct variantCodes, and ids        *)
(* (client-supplied or drawn from the sequence) that are pairwise distinct  *)
(* and held by no existing Variant row.                                     *)
C6_RoundTrip ==
    (CreateWithoutRowConflict /\ BatchWithoutConflict) => (Succeeded /\ ListedOnceAsSubmitted)

C6_Witness ==
    /\ CreateWithoutRowConflict
    /\ BatchWithoutConflict
    /\ Succeeded
    /\ Len(Submitted) > 1
    /\ Cardinality(fabrics) > 1

-----------------------------------------------------------------------------
(* C7  Cascade delete: after deleteFabric(id) returns success no Fabric row *)
(* has that id, no Variant row has fabricId = id, and getFabricForEdit(id)  *)
(* returns absent.                                                          *)
C7_CascadeDelete ==
    (Called("deleteFabric") /\ Succeeded) =>
        /\ \A r \in fabrics : r.id # last.fabricId
        /\ \A v \in fabricVariants : v.fabricId # last.fabricId
        /\ ~getFabricForEdit(Db, last.fabricId).found

C7_Witness ==
    /\ Called("deleteFabric")
    /\ Succeeded
    /\ TargetExisted
    /\ VariantsOf(prev, last.fabricId) # {}
    /\ ~getFabricForEdit(Db, last.fabricId).found

-----------------------------------------------------------------------------
(* C9  Core-only update leaves variants untouched: when the submission of   *)
(* updateFabric has no variants field, or one that is no array, the Variant *)
(* rows of every fabric are the same before and after the call.             *)
C9_CoreOnlyKeepsVariants ==
    (Called("updateFabric") /\ ~CarriesList(last.formData)) =>
        fabricVariants = prev.fabricVariants

C9_Witness ==
    /\ Called("updateFabric")
    /\ Succeeded
    /\ Has(last.formData, "variants")
    /\ ~CarriesList(last.formData)
    /\ VariantsOf(prev, last.fabricId) # {}
    /\ fabrics # prev.fabrics
    /\ fabricVariants = prev.fabricVariants

-----------------------------------------------------------------------------
\* the row of the target fabric
TargetRow(db) == getFabricForEdit(db, last.fabricId).fabric

(* C10  Partial update frame: a successful updateFabric writes the core     *)
(* columns the validated submission carries and no other: a column the      *)
(* submission omits (widthCm, weightGsm, a flag) keeps its persisted value. *)
C10_PartialUpdateFrame ==
    (Called("updateFabric") /\ Succeeded /\ TargetExisted) =>
        \A k \in CoreKeys :
            TargetRow(Db)[k] = IF Has(last.formData, k) THEN last.formData[k] ELSE TargetRow(prev)[k]

C10_Witness ==
    /\ Called("updateFabric")
    /\ Succeeded
    /\ TargetExisted
    /\ ~Has(last.formData, "isNormal") /\ TargetRow(prev).isNormal /\ TargetRow(Db).isNormal
    /\ ~Has(last.formData, "widthCm") /\ TargetRow(prev).widthCm # MinWidthCm
    /\ TargetRow(Db).name # TargetRow(prev).name

-----------------------------------------------------------------------------
(* C8  Atomic visibility: a getFabrics or getFabricForEdit that runs while  *)
(* a createFabric or updateFabric is in flight returns what it would have   *)
(* returned before the write or what it returns after the commit of the     *)
(* write, never a state in between.                                         *)
C8_AtomicVisibility ==
    seen # <<>> => (seen.value = seen.before \/ seen.value = seen.after)

\* a read while the transaction had applied a part of its statements that
\* neither the state before nor the state after shows
C8_Witness ==
    /\ seen # <<>>
    /\ seen.working # seen.before
    /\ seen.working # seen.after
    /\ seen.before # seen.after
    /\ seen.value = seen.before

\* the statements, run one at a time, arrive at what the action computes in
\* one piece
TxRunsToOutcome ==
    (tx # Idle /\ tx.todo = <<>>) =>
        /\ tx.db.fabrics = Outcome(tx).fabrics
        /\ tx.db.fabricVariants = Outcome(tx).fabricVariants

-----------------------------------------------------------------------------
\* the error the transaction of the last createFabric ended with
CreateError ==
    LET data == fabricSchemaData(last.formData)
    IN  createFabricTx(prev, Omit(data, {"variants"}), data.variants, clock - 1, last.fault).err

\* the last call was a createFabric of a valid submission that broke the
\* unique constraint c
CreateBroke(c) ==
    /\ Called("createFabric")
    /\ last.fault = NoFault
    /\ fabricSchemaIssues(last.formData) = {}
    /\ CreateError = c

(* C11  Create conflict identification: when createFabric fails on a        *)
(* uniqueness violation the message names the constraint that was violated: *)
(* the External ID message is given for a duplicate externalId only, not    *)
(* for a duplicate name or a duplicate (fabricId, variantCode).  The code   *)
(* has one message for every unique violation, so the statement fails.      *)
C11_ConflictIdentified ==
    /\ CreateBroke(ExternalIdUnique) => last.result.message = MsgDuplicateExternalId
    /\ CreateBroke(NameIdx) => last.result.message # MsgDuplicateExternalId
    /\ CreateBroke(UniqueVariantPerFabric) => last.result.message # MsgDuplicateExternalId

-----------------------------------------------------------------------------
\* the error the transaction of the last updateFabric ended with
UpdateError ==
    updateFabricTx(prev, last.fabricId, coreFabricSchemaData(last.formData), last.formData,
                   clock - 1, last.fault).err

\* the last call was an updateFabric that got past validation and failed
UpdateFailedInDb ==
    /\ Called("updateFabric")
    /\ last.fault \in {NoFault, DbError}
    /\ coreFabricSchemaIssues(last.formData) = {}
    /\ ~Succeeded

(* C12  Update failure classification: a failed updateFabric returns the    *)
(* 'variant code already used' message exactly when the error is a          *)
(* duplicate (fabricId, variantCode); every other persistence error, a      *)
(* duplicate externalId or name of the core update included, returns the    *)
(* generic failure message.  The code gives the variant code message for    *)
(* every unique violation, so the statement fails.                          *)
C12_UpdateFailureClassified ==
    UpdateFailedInDb =>
        last.result.message =
            IF UpdateError = UniqueVariantPerFabric THEN MsgDuplicateVariantCode ELSE MsgUpdateFailed

-----------------------------------------------------------------------------
(* C13  Delete of a missing row: a deleteFabric(id) that the database       *)
(* answers returns success:true exactly when a Fabric row of that id        *)
(* existed and was deleted, and success:false for an id no row holds.  The  *)
(* code never looks at the number of rows deleted, so the statement fails.  *)
C13_DeleteMissingFails ==
    (Called("deleteFabric") /\ last.fault = NoFault) => (Succeeded <=> TargetExisted)

-----------------------------------------------------------------------------
\* the last call was a getFabricForEdit that the database answered
AskedForEdit == Called("getFabricForEdit") /\ last.fault = NoFault

(* C14  Not-found is a value: a getFabricForEdit(id) that the database      *)
(* answers never raises and leaves the tables as they were; for an id no    *)
(* Fabric row holds it returns the absent result, and for an existing id    *)
(* the Fabric row of that id with all Variant rows of that fabric and no    *)
(* Variant row of another fabric.                                           *)
C14_NotFoundIsValue ==
    AskedForEdit =>
        /\ ~last.threw
        /\ TablesUnchanged
        /\ last.result.found = (\E r \in fabrics : r.id = last.fabricId)
        /\ last.result.found =>
              /\ last.result.fabric \in fabrics
              /\ last.result.fabric.id = last.fabricId
              /\ last.result.variants = {v \in fabricVariants : v.fabricId = last.fabricId}

\* a not-found while other fabrics with variants are persisted
C14_Witness ==
    /\ AskedForEdit
    /\ ~last.result.found
    /\ fabricVariants # {}

C14_WitnessFound ==
    /\ AskedForEdit
    /\ last.result.found
    /\ last.result.variants # {}
    /\ \E v \in fabricVariants : v.fabricId # last.fabricId

-----------------------------------------------------------------------------
\* the last call is one of the five operations and the database failed under it
FailedUnderneath ==
    /\ last.op \in {"createFabric", "updateFabric", "deleteFabric", "getFabrics", "getFabricForEdit"}
    /\ last.fault = DbError

(* C15  Uniform failure boundary: when the database fails under one of the  *)
(* five operations, the operation returns a result value and no exception   *)
(* reaches its caller.  getFabrics and getFabricForEdit have no try/catch,  *)
(* so the statement fails for the two reads.                                *)
C15_NoRawException ==
    FailedUnderneath => ~last.threw

-----------------------------------------------------------------------------
\* the last call was a getFabrics that the database answered
Listed == Called("getFabrics") /\ last.fault = NoFault

(* C16  List ordering: getFabrics returns every persisted Fabric exactly    *)
(* once, newest createdAt first, and each returned Fabric carries exactly   *)
(* the Variant rows of that fabric, in ascending order of variantCode.      *)
C16_ListOrdering ==
    Listed =>
        LET list == last.result
        IN  /\ Len(list) = Cardinality(fabrics)
            /\ {list[i].fabric : i \in 1..Len(list)} = fabrics
            /\ \A i, j \in 1..Len(list) : i < j => list[i].fabric.createdAt >= list[j].fabric.createdAt
            /\ \A i \in 1..Len(list) :
                  LET variants == list[i].variants
                  IN  /\ Len(variants) = Cardinality(Range(variants))
                      /\ Range(variants) = {v \in fabricVariants : v.fabricId = list[i].fabric.id}
                      /\ \A m, n \in 1..Len(variants) : m < n =>
                            CodeRank(variants[m].variantCode) <= CodeRank(variants[n].variantCode)

\* two fabrics listed, one of them with its variants in another order than
\* the order of their ids
C16_Witness ==
    /\ Listed
    /\ Len(last.result) = 2
    /\ last.result[1].fabric.id > last.result[2].fabric.id
    /\ \E i \in 1..2 :
          /\ Len(last.result[i].variants) = 2
          /\ last.result[i].variants[1].id > last.result[i].variants[2].id

-----------------------------------------------------------------------------
\* the last call was a createFabric that reached the code
CreateCalled == Called("createFabric") /\ last.fault = NoFault

\* createFabric rejected the submission for field k and persisted nothing
RejectedFor(k) ==
    /\ ~Succeeded
    /\ k \in last.result.errors
    /\ TablesUnchanged

\* every field of the submission other than widthCm and weightGsm obeys the
\* rules of the full schema
OtherFieldsValid ==
    LET fd == last.formData
    IN  /\ Len(fd.externalId) >= 3 /\ Len(fd.name) >= 1
        /\ Len(fd.baseImage) >= 1 /\ Len(fd.composition) >= 1
        /\ fd.variants.array
        /\ Len(fd.variants.items) >= 1
        /\ \A i \in 1..Len(fd.variants.items) :
              /\ Len(fd.variants.items[i].variantCode) >= 1
              /\ Len(fd.variants.items[i].variantName) >= 1
              /\ Len(fd.variants.items[i].variantImage) >= 1
              /\ fd.variants.items[i].stockQuantity >= 0

(* C17  Boundary validation on create: createFabric rejects widthCm = 49,   *)
(* weightGsm = 9 and an empty variants array, each with a field-error map   *)
(* that holds the offending field and with nothing persisted; a submission  *)
(* with widthCm = 50 and weightGsm = 10 whose other fields are valid passes *)
(* validation.                                                              *)
C17_CreateBoundaries ==
    CreateCalled =>
        /\ last.formData.widthCm = 49 => RejectedFor("widthCm")
        /\ last.formData.weightGsm = 9 => RejectedFor("weightGsm")
        /\ (last.formData.variants.array /\ last.formData.variants.items = <<>>) => RejectedFor("variants")
        /\ (OtherFieldsValid /\ last.formData.widthCm = 50 /\ last.formData.weightGsm = 10) =>
              /\ last.result.errors = {}
              /\ last.result.message # MsgValidation

\* widthCm = 49 rejected for widthCm alone, next to a persisted fabric that
\* was created with widthCm = 50 and weightGsm = 10
C17_Witness ==
    /\ CreateCalled
    /\ last.formData.widthCm = 49
    /\ last.result.errors = {"widthCm"}
    /\ TablesUnchanged
    /\ \E r \in fabrics : r.widthCm = 50 /\ r.weightGsm = 10

-----------------------------------------------------------------------------
\* every core field the submission carries obeys its rule; a field it omits
\* breaks none
PresentFieldsValid(fd) ==
    /\ Has(fd, "externalId") => Len(fd.externalId) >= 3
    /\ \A k \in {"name", "baseImage", "composition"} : Has(fd, k) => Len(fd[k]) >= 1
    /\ Has(fd, "widthCm") => fd.widthCm >= 50
    /\ Has(fd, "weightGsm") => fd.weightGsm >= 10

(* C18  Relaxed validation profile: the validation of updateFabric fails    *)
(* exactly when a core field that is present breaks its rule; a field that  *)
(* is omitted (externalId, name, baseImage, composition, widthCm,           *)
(* weightGsm, a flag) and the variants array never cause a failure.  The    *)
(* code requires the four strings, so the statement fails.                  *)
C18_RelaxedProfile ==
    (Called("updateFabric") /\ last.fault = NoFault) =>
        ((last.result.message = MsgValidationCore) <=> ~PresentFieldsValid(last.formData))

-----------------------------------------------------------------------------
(* C19  Persisted variants satisfy the Variant rules: in every reachable    *)
(* state every Variant row has a non-empty variantCode, variantName and     *)
(* variantImage and a stockQuantity >= 0.  updateFabric writes the variants *)
(* of the unparsed submission, so the statement fails.                      *)
C19_PersistedVariantsValid ==
    \A v \in fabricVariants :
        /\ Len(v.variantCode) >= 1
        /\ Len(v.variantName) >= 1
        /\ Len(v.variantImage) >= 1
        /\ v.stockQuantity >= 0

-----------------------------------------------------------------------------
\* the last call was an updateFabric of an existing fabric whose submission
\* carries, under key k, the value another fabric holds
UpdateTakes(k) ==
    /\ Called("updateFabric")
    /\ TargetExisted
    /\ Has(last.formData, k)
    /\ \E r \in prev.fabrics : r.id # last.fabricId /\ r[k] = last.formData[k]

(* C20  Fabric uniqueness invariant: in every reachable state no two        *)
(* Fabric rows share an externalId and no two share a name; an updateFabric *)
(* that would set the externalId or the name of a fabric to the value       *)
(* another fabric holds fails and changes nothing.                          *)
C20_FabricsUnique ==
    /\ \A r, o \in fabrics : r # o =>
          /\ r.id # o.id
          /\ r.externalId # o.externalId
          /\ r.name # o.name
    /\ (UpdateTakes("externalId") \/ UpdateTakes("name")) => (~Succeeded /\ TablesUnchanged)

\* the database refused an update that takes the name of the other fabric and
\* keeps its own externalId
C20_Witness ==
    /\ UpdateTakes("name")
    /\ ~UpdateTakes("externalId")
    /\ last.fault = NoFault
    /\ coreFabricSchemaIssues(last.formData) = {}
    /\ ~Succeeded
    /\ Cardinality(fabrics) = 2

-----------------------------------------------------------------------------
\* the last call was one of the three writes
Wrote == last.op \in {"createFabric", "updateFabric", "deleteFabric"}

(* C21  Variant ownership invariant: in every reachable state the fabricId  *)
(* of each Variant row is the id of a Fabric row, and a Variant row that    *)
(* was there before a createFabric, updateFabric or deleteFabric and is     *)
(* still there after it has the fabricId it had.                            *)
C21_VariantOwnership ==
    /\ \A v \in fabricVariants : \E r \in fabrics : r.id = v.fabricId
    /\ Wrote => \A v \in fabricVariants : \A o \in prev.fabricVariants :
                    v.id = o.id => v.fabricId = o.fabricId

\* a fabric with variants was deleted while the variants of another fabric
\* stayed
C21_Witness ==
    /\ Called("deleteFabric")
    /\ Succeeded
    /\ VariantsOf(prev, last.fabricId) # {}
    /\ fabricVariants # {}
    /\ fabricVariants # prev.fabricVariants

-----------------------------------------------------------------------------
(* C22  Timestamps: the createdAt of a Fabric row never changes, and after  *)
(* every successful updateFabric of an existing fabric its updatedAt is     *)
(* later than before the call.  No statement of the code writes updatedAt   *)
(* after the insert, so the statement fails.                                *)
C22_TimestampsRefreshed ==
    /\ Wrote => \A r \in fabrics : \A o \in prev.fabrics : r.id = o.id => r.createdAt = o.createdAt
    /\ (Called("updateFabric") /\ Succeeded /\ TargetExisted) =>
          TargetRow(Db).updatedAt > TargetRow(prev).updatedAt

\* the last call carried the core fields the variant manager dialog sends for
\* the fabric it was opened on
FromDialog ==
    /\ Called("updateFabric")
    /\ TargetExisted
    /\ CarriesList(last.formData)
    /\ Pick(last.formData, CoreKeys) = minimalFabricData(TargetRow(prev).name)

(* C25  Variant-management flow is accepted: for an existing fabric and a   *)
(* variants list that satisfies the rules of a variant, the submission the  *)
(* variant manager dialog builds (the list and the placeholders externalId  *)
(* "", composition "", baseImage "", widthCm 100, weightGsm 100, name the   *)
(* fabric's name) passes the validation of updateFabric.  coreFabricSchema  *)
(* requires externalId, baseImage and composition, so the submission is     *)
(* rejected and the statement fails.                                        *)
C25_DialogAccepted ==
    (/\ FromDialog
     /\ \A i \in 1..Len(Submitted) : variantSchemaIssues(Submitted[i]) = {})
        => last.result.message # MsgValidationCore

(* C26  Failure implies no change: whenever createFabric, updateFabric or   *)
(* deleteFabric returns success false, the persisted fabrics and variants   *)
(* are those before the call.  revalidatePath is called inside the try      *)
(* block after the transaction committed: when it throws, the catch block   *)
(* returns the failure and the change stays, so the statement fails.        *)
C26_FailureNoChange ==
    (Wrote /\ ~Succeeded) => TablesUnchanged

\* the variantCodes of the submitted list are pairwise distinct
DistinctCodes ==
    \A i, j \in 1..Len(Submitted) :
        Submitted[i].variantCode = Submitted[j].variantCode => i = j

\* an update of a persisted fabric that passes validation, leaves the core
\* fields as persisted, and carries a well-formed list whose ids are the
\* fabric's
ListUpdate ==
    /\ Called("updateFabric")
    /\ last.fault = NoFault
    /\ TargetExisted
    /\ CarriesList(last.formData)
    /\ Pick(last.formData, CoreKeys) = Pick(TargetRow(prev), CoreKeys)
    /\ \A i \in 1..Len(Submitted) : variantSchemaIssues(Submitted[i]) = {}
    /\ SubmittedIdsBelong

(* C27  Reconciliation is order-independent with respect to the final set:  *)
(* an updateFabric whose submitted list has pairwise distinct variantCodes  *)
(* succeeds, also when a code moves between rows (a new variant reusing the *)
(* code of a row the submission omits, two rows swapping their codes).  The *)
(* unique index is checked at every statement, before the later statement   *)
(* frees the code, so the statement fails.                                  *)
C27_CodeMovesSucceed ==
    (ListUpdate /\ DistinctCodes) => Succeeded

(* C28  Cross-fabric isolation of updates: updateFabric(fabricId, ...)      *)
(* never inserts, modifies or deletes a variant row of another fabric and   *)
(* never modifies another fabric row.  The update of an existing variant    *)
(* selects the row by its id alone, so a submitted id of another fabric's   *)
(* variant rewrites that row and the statement fails.                       *)
C28_CrossFabricIsolation ==
    Called("updateFabric") =>
        /\ {v \in fabricVariants : v.fabricId # last.fabricId}
              = {v \in prev.fabricVariants : v.fabricId # last.fabricId}
        /\ {r \in fabrics : r.id # last.fabricId}
              = {r \in prev.fabrics : r.id # last.fabricId}

(* C29  No silently dropped variant: after a successful updateFabric with   *)
(* a variants list, every submitted variant that carried an id is a row of  *)
(* the target fabric with the submitted field values.  An id that matches   *)
(* no row of the fabric updates nothing (or a row of another fabric) and    *)
(* success is returned all the same, so the statement fails.                *)
C29_NoDroppedVariant ==
    (Called("updateFabric") /\ Succeeded /\ CarriesList(last.formData)) =>
        \A i \in 1..Len(Submitted) :
            Truthy(Submitted[i]) =>
                \E r \in VariantsOf(Db, last.fabricId) :
                    /\ r.id = Submitted[i].id
                    /\ Pick(r, ContentKeys \cap DOMAIN Submitted[i]) = Pick(Submitted[i], ContentKeys)

(* C30  Update of a missing fabric: updateFabric returns success only if a  *)
(* fabric row of that id exists; for an id that matches no row it returns   *)
(* a failure and persists nothing.  An UPDATE that matches no row is not an *)
(* error and the affected rows are not looked at, so success is returned    *)
(* and the statement fails.                                                 *)
C30_MissingFabricFails ==
    /\ (Called("updateFabric") /\ Succeeded) => TargetExisted
    /\ (Called("updateFabric") /\ ~TargetExisted) => TablesUnchanged

-----------------------------------------------------------------------------
(* Two editors: each opens the edit form on a fabric, which loads the       *)
(* fabric with getFabricForEdit, changes the variants in the form, and      *)
(* submits the form's list with updateFabric.  The server keeps no version  *)
(* of what an editor loaded.                                                *)

\* the empty variant the form starts a new variant with
initialVariant ==
    [variantCode |-> "", variantName |-> "", variantImage |-> "", stockQuantity |-> MinStock,
     hexColorCode |-> ""]

\* the form's core fields before anything is loaded
defaultFabricData ==
    [externalId |-> "", name |-> "", baseImage |-> "", composition |-> "",
     widthCm |-> 0, weightGsm |-> 0, isNormal |-> FALSE]

\* useEditFormState.loadData: the form after getFabricForEdit resolved; rows
\* and loadedAt record what was persisted when the form loaded
loadData(db, fabricId, now) ==
    LET got == getFabricForEdit(db, fabricId)
        initialVariants == loadVariants(db, fabricId)
    IN  [open |-> TRUE,
         fabricId |-> fabricId,
         fabricData |-> IF got.found THEN got.fabric ELSE defaultFabricData,
         variantInputs |-> IF ~got.found THEN <<>>
                           ELSE IF Len(initialVariants) > 0 THEN initialVariants
                           ELSE <<initialVariant>>,
         rows |-> got.variants,
         loadedAt |-> now,
         submittedAt |-> 0]

\* removeVariant(index)
removeVariant(variantInputs, index) ==
    [i \in 1..(Len(variantInputs) - 1) |->
        IF i < index THEN variantInputs[i] ELSE variantInputs[i + 1]]

\* what an editor can make of the loaded list before submitting: nothing, a
\* stockQuantity changed, a variant removed, a variant added and filled in
FormEdits(variantInputs) ==
    {variantInputs}
    \cup {[variantInputs EXCEPT ![i].stockQuantity = StockEdited] : i \in 1..Len(variantInputs)}
    \cup {removeVariant(variantInputs, i) : i \in 1..Len(variantInputs)}
    \cup {Append(variantInputs, Spread(initialVariant, Entry("b", StockNew)))}

\* useEditFormState.handleSubmit: rawData, and the data fabricSchema parsed
\* from it, which is handed to updateFabric
rawData(form, variantInputs) ==
    Spread(form.fabricData, [variants |-> Array(variantInputs)])

validationData(form, variantInputs) ==
    LET data == fabricSchemaData(rawData(form, variantInputs))
    IN  Spread(data, [variants |-> Array(data.variants)])

\* the fabrics the editors work on
EditSeeds ==
    {Spread(Core("TZ1", "N1", MinWidthCm, MinWeightGsm), [variants |-> Array(l)]) :
        l \in {<<Entry("a", StockNew)>>, <<Entry("a", StockNew), Entry("b", StockNew)>>}}

\* the edit form of editor e mounts on fabric fabricId and loads it
EditorLoad(e, fabricId) ==
    /\ ~editors[e].open
    /\ editors[e].submittedAt = 0
    /\ editors' = [editors EXCEPT ![e] = loadData(Db, fabricId, clock)]
    /\ UNCHANGED <<fabrics, fabricVariants, fabricsIdSeq, variantsIdSeq, clock, prev, last, tx, seen, uploads>>

\* editor e submits the form with the list variantInputs: nothing is sent
\* when the form's own validation fails; the form closes on success
EditorSubmit(e, variantInputs) ==
    LET form == editors[e]
        formData == validationData(form, variantInputs)
        out == updateFabric(Db, form.fabricId, formData, clock, NoFault)
    IN  /\ clock < MaxOps
        /\ form.open
        /\ fabricSchemaIssues(rawData(form, variantInputs)) = {}
        /\ Returned("updateFabric", form.fabricId, formData, NoFault, out)
        /\ editors' = [editors EXCEPT ![e] = [form EXCEPT !.open = ~out.result.success,
                                                          !.variantInputs = variantInputs,
                                                          !.submittedAt = clock + 1]]

NextEdit ==
    \/ \E formData \in EditSeeds : CreateFabric(formData, NoFault)
    \/ \E e \in Editors : \E fabricId \in FabricIds : EditorLoad(e, fabricId)
    \/ \E e \in Editors : \E variantInputs \in FormEdits(editors[e].variantInputs) :
          EditorSubmit(e, variantInputs)

SpecEdit == Init /\ [][NextEdit]_vars

\* editor e made the last call
LastSubmitter(e) == Called("updateFabric") /\ editors[e].submittedAt = clock

\* what editor e loaded was no longer what was persisted when e submitted
Stale(e) == editors[e].rows # VariantsOf(prev, last.fabricId)

(* C23  Lost update is reachable (last writer wins): no version check       *)
(* rejects a stale submission.  A submission that only carries variants it  *)
(* loaded succeeds although the persisted variants changed after the load,  *)
(* and after any successful submission every remaining variant of the       *)
(* fabric is an entry of the submitted list with the submitted content,     *)
(* whatever another editor committed in between.                            *)
C23_LastWriterWins ==
    \A e \in Editors :
        /\ (LastSubmitter(e) /\ Stale(e) /\ \A i \in 1..Len(Submitted) : Truthy(Submitted[i]))
              => Succeeded
        /\ (LastSubmitter(e) /\ Succeeded) =>
              \A r \in VariantsOf(Db, last.fabricId) :
                  \E i \in 1..Len(Submitted) :
                      /\ Truthy(Submitted[i])
                      /\ Submitted[i].id = r.id
                      /\ Pick(r, ContentKeys) = Pick(Submitted[i], ContentKeys)

\* the second editor's stale submission succeeded and a row the first editor
\* committed after the second had loaded is no longer as the first left it
C23_Witness ==
    \E e \in Editors : \E o \in Editors \ {e} :
        /\ LastSubmitter(e)
        /\ Succeeded
        /\ editors[o].fabricId = editors[e].fabricId
        /\ editors[o].submittedAt = clock - 1
        /\ ~editors[o].open
        /\ editors[e].loadedAt < editors[o].submittedAt
        /\ \E r \in VariantsOf(prev, last.fabricId) :
              /\ r \notin editors[e].rows
              /\ r \notin fabricVariants

-----------------------------------------------------------------------------
(* The upload route imageUploader: the middleware runs on the server before *)
(* the upload, what it returns is the metadata of onUploadComplete, and a   *)
(* request whose middleware throws is rejected.  The route exists in three  *)
(* versions.                                                                *)

RouteVersions == {"first", "second", "third"}

\* what auth() finds in the session cookie: no user, or the id of a user
SessionUserIds == {Null, "user_1", "user_2"}

FileUrls == {"https://utfs.io/f/one.png", "https://utfs.io/f/two.png"}

Unauthorized == "Unauthorized"

\* an async function resolved with value, or rejected with error
Resolved(value) == [threw |-> FALSE, error |-> "", value |-> value]
Rejected(error) == [threw |-> TRUE, error |-> error, value |-> <<>>]

\* Clerk's auth(): the session's userId, or null
auth(session) == [userId |-> session]

\* !userId
Not(userId) == userId = Null \/ userId = ""

\* authenticateUser without its check of userId
authenticateUserUnchecked(session) == Resolved([userId |-> auth(session).userId])

\* authenticateUser: the same function in the three versions
authenticateUser(session) ==
    IF Not(auth(session).userId)
    THEN Rejected(Unauthorized)
    ELSE Resolved([userId |-> auth(session).userId])

\* first version: the result is awaited, then tested (an object is never falsy)
middlewareFirst(session) ==
    LET user == authenticateUser(session)
    IN  IF user.threw THEN user
        ELSE IF user.value = <<>> THEN Rejected(Unauthorized)
        ELSE Resolved([userId |-> user.value.userId])

\* second version: the promise is kept and awaited in the return expression
middlewareSecond(session) ==
    LET user == authenticateUser(session)
    IN  IF user.threw THEN Rejected(user.error)
        ELSE Resolved([userId |-> user.value.userId])

\* third version: the awaited result is destructured
middlewareThird(session) ==
    LET awaited == authenticateUser(session)
    IN  IF awaited.threw THEN awaited
        ELSE Resolved([userId |-> awaited.value.userId])

middleware(version, session) ==
    CASE version = "first" -> middlewareFirst(session)
      [] version = "second" -> middlewareSecond(session)
      [] version = "third" -> middlewareThird(session)

\* onUploadComplete: the same in the three versions
onUploadComplete(metadata, file) == [uploadedFileUrl |-> file.url]

UploadsUnchanged ==
    UNCHANGED <<fabrics, fabricVariants, fabricsIdSeq, variantsIdSeq, clock, prev, last, tx, seen, editors>>

\* a client asks the route of some version to take a file
UploadRequest(version, session, url) ==
    /\ Len(uploads) < MaxUploads
    /\ uploads' = Append(uploads, [version |-> version, session |-> session, file |-> [url |-> url],
                                   phase |-> "received", metadata |-> <<>>, response |-> <<>>])
    /\ UploadsUnchanged

\* the middleware of request i runs: its error rejects the request, its value
\* becomes the metadata and the upload goes ahead
Middleware(i) ==
    LET u == uploads[i]
        m == middleware(u.version, u.session)
    IN  /\ u.phase = "received"
        /\ uploads' = [uploads EXCEPT ![i] =
              IF m.threw
              THEN [u EXCEPT !.phase = "rejected", !.response = [error |-> m.error]]
              ELSE [u EXCEPT !.phase = "uploading", !.metadata = m.value]]
        /\ UploadsUnchanged

\* the file of request i is stored and onUploadComplete answers the client
OnUploadComplete(i) ==
    LET u == uploads[i]
    IN  /\ u.phase = "uploading"
        /\ uploads' = [uploads EXCEPT ![i] =
              [u EXCEPT !.phase = "complete", !.response = onUploadComplete(u.metadata, u.file)]]
        /\ UploadsUnchanged

NextUpload ==
    \/ \E version \in RouteVersions : \E session \in SessionUserIds : \E url \in FileUrls :
          UploadRequest(version, session, url)
    \/ \E i \in 1..Len(uploads) : Middleware(i)
    \/ \E i \in 1..Len(uploads) : OnUploadComplete(i)

SpecUpload == Init /\ [][NextUpload]_vars

(* C24  Upload authorization gate: in every version of the route, a request *)
(* whose session resolves no userId is rejected by the middleware with the  *)
(* Unauthorized error, so its upload never starts, onUploadComplete never   *)
(* runs for it and no file URL is returned; onUploadComplete runs only with *)
(* a non-empty userId in its metadata, the one of the session.              *)
C24_UploadGate ==
    \A i \in 1..Len(uploads) :
        LET u == uploads[i]
        IN  /\ u.session = Null =>
                  /\ u.phase \in {"received", "rejected"}
                  /\ ~Has(u.response, "uploadedFileUrl")
                  /\ u.phase = "rejected" => u.response = [error |-> Unauthorized]
            /\ u.phase \in {"uploading", "complete"} =>
                  /\ u.metadata.userId \notin {Null, ""}
                  /\ u.metadata.userId = u.session
            /\ Has(u.response, "uploadedFileUrl") => u.phase = "complete"

\* a request without a user was rejected by the middleware, and a
\* request of a signed-in user was answered with the URL of its file
C24_Witness ==
    /\ \E i \in 1..Len(uploads) :
          /\ uploads[i].session = Null
          /\ uploads[i].phase = "rejected"
    /\ \E i \in 1..Len(uploads) :
          /\ uploads[i].phase = "complete"
          /\ uploads[i].response = [uploadedFileUrl |-> uploads[i].file.url]

====
